---- MODULE Spec2Model ----
(***************************************************************************)
(* Model of app.py: the ending-credit generator.  One run of main() is a   *)
(* sequence of steps (download the outro, read the form, build the credit  *)
(* sentence, synthesize it, assemble the clips, deliver, clean up).        *)
(* Strings are sequences of Unicode code points, speeds are tenths         *)
(* (0.5 is 5, 2.0 is 20), an audio clip is a sequence of one-millisecond   *)
(* frames tagged with their origin, and a temporary file is a name mapped  *)
(* to its content.  Writing to a temporary file that was just created is   *)
(* taken to succeed; the remote calls, the decoding, the export and the    *)
(* delivery may fail.                                                      *)
(***************************************************************************)
EXTENDS Integers, Sequences, FiniteSets, TLC

VARIABLES
    pc,           \* position in main(), or "idle"/"returned" for a direct call
    files,        \* temporary files on disk: name -> content
    created,      \* names of all temporary files created so far
    fetch,        \* outcome of requests.get(OUTRO_URL)
    outro_path,   \* main: outro_path
    title,        \* main: title
    author,       \* main: author
    narrator,     \* main: narrator
    speed,        \* main: speed (tenths)
    submitted,    \* main: submitted
    credit_text,  \* main: credit_text (<<>> while unassigned)
    ttsOutcome,   \* how the last text_to_speech call ended
    ttsRequests,  \* keyword arguments of every convert() call issued
    tts_path,     \* main: tts_path
    processCalls, \* number of invocations of process_audio_files
    tts_audio,    \* process_audio_files: tts_audio (<<>> while unassigned)
    outro_audio,  \* process_audio_files: outro_audio (<<>> while unassigned)
    combined,     \* process_audio_files: combined (<<>> while unassigned)
    final_path,   \* main: final_path
    sink,         \* data handed to st.audio
    download,     \* data handed to st.download_button
    errors,       \* st.error messages, by kind
    word,         \* get_josa: text
    josa_type,    \* get_josa: josa_type
    josa          \* get_josa: returned particle (<<>> while not called)

vars == <<pc, files, created, fetch, outro_path, title, author, narrator,
          speed, submitted, credit_text, ttsOutcome, ttsRequests, tts_path,
          processCalls, tts_audio, outro_audio, combined, final_path, sink,
          download, errors, word, josa_type, josa>>

----------------------------------------------------------------------------
(* Bounds *)

MaxLen == 2          \* longest word handed to get_josa
MaxSpeechMs == 2     \* longest synthesized speech clip, in ms
MaxOutroMs == 2      \* longest outro clip, in ms
SpeedMargin == 3     \* tenths below/above the slider range tried directly

----------------------------------------------------------------------------
(* Program constants *)

None == "None"
HangulFirst == 44032       \* 0xAC00, first Hangul syllable
HangulLast == 55203        \* 0xD7A3, last Hangul syllable
JongsungCount == 28
SilenceMs == 500
MinSpeed == 5              \* slider min_value=0.5
MaxSpeed == 20             \* slider max_value=2.0
DefaultSpeed == 10         \* slider value=1.0
VoiceId == "xtPpJW6BY4c8ATbuVBO1"
ModelId == "eleven_multilingual_v2"
OutputFormat == "mp3_44100_128"

Subject == "i/ga"          \* josa_type U+C774 "/" U+AC00 (subject)
Object == "eul/reul"       \* any other josa_type (object)
JosaTypes == {Subject, Object}

I == <<51060>>             \* U+C774
Ga == <<44032>>            \* U+AC00
Eul == <<51012>>           \* U+C744
Reul == <<47484>>          \* U+B97C

KoHead == <<51648, 44552, 44620, 51648, 32>>
KoAfterTitle == <<32, 51060, 50632, 49845, 45768, 45796, 46, 32>>
KoAfterAuthor == <<32, 50416, 44256, 44, 32>>
KoAfterNarrator ==
    <<32, 51069, 50632, 51004, 47728, 44, 32, 51060, 50612, 44032, 45796,
      50640, 49436, 32, 52636, 54032, 54664, 49845, 45768, 45796, 46>>
EnHead ==
    <<89, 111, 117, 39, 118, 101, 32, 98, 101, 101, 110, 32, 108, 105, 115,
      116, 101, 110, 105, 110, 103, 32, 116, 111, 32>>
EnAfterTitle == <<46, 32, 87, 114, 105, 116, 116, 101, 110, 32, 98, 121, 32>>
EnAfterAuthor == <<44, 32, 114, 101, 97, 100, 32, 98, 121, 32>>
EnAfterNarrator ==
    <<44, 32, 97, 110, 100, 32, 112, 117, 98, 108, 105, 115, 104, 101, 100,
      32, 98, 121, 32, 73, 101, 111, 103, 97, 100, 97, 46>>

----------------------------------------------------------------------------
(* Input domains *)

\* Code points around the edges of the Hangul syllable block: 'A', the
\* jamo U+3131, U+ABFF, U+AC00, U+AC01, U+AC1C, U+D7A3, and U+D7A5 past
\* the block.
Chars == {65, 12593, 44031, 44032, 44033, 44060, 55203, 55205}

SeqsUpTo(S, n) == UNION {[1..k -> S] : k \in 0..n}

Words == SeqsUpTo(Chars, MaxLen)

\* Names for direct calls of generate_ending_credit: empty, Latin, Hangul
\* with and without jongsung, and mixed with Hangul first, last or inside.
Names ==
    {<<>>, <<65>>, <<72, 105>>, <<44032>>, <<44033>>, <<72, 105, 50504>>,
     <<44033, 65>>, <<12593>>, <<55205>>}

\* What the form's text inputs deliver in a run of main().
FormNames == {<<>>, <<65>>, <<44033>>, <<65, 44032>>}

SliderValues == MinSpeed..MaxSpeed

DirectSpeeds == (MinSpeed - SpeedMargin)..(MaxSpeed + SpeedMargin)

Clip(tag, ms) == [i \in 1..ms |-> tag]

Garbage == [format |-> "bad", frames |-> <<>>]
NoData == [format |-> "none", frames |-> <<>>]

\* Bodies the outro URL may serve, and bytes the TTS backend may stream.
OutroContents ==
    {[format |-> "wav", frames |-> Clip("outro", d)] : d \in 1..MaxOutroMs}
        \cup {Garbage}
SpeechContents ==
    {[format |-> "mp3", frames |-> Clip("speech", d)] : d \in 1..MaxSpeechMs}
        \cup {Garbage}

StatusCodes == {200, 404, 500}

----------------------------------------------------------------------------
(* Grammar functions *)

InHangul(c) == HangulFirst <= c /\ c <= HangulLast

\* has_jongsung without the test that the last character is a syllable.
has_jongsung_NoRangeCheck(text) ==
    IF text = <<>> THEN FALSE
    ELSE (text[Len(text)] - HangulFirst) % JongsungCount # 0

has_jongsung(text) ==
    IF text = <<>> THEN FALSE
    ELSE LET last_char == text[Len(text)] IN
         IF InHangul(last_char)
         THEN (last_char - HangulFirst) % JongsungCount # 0
         ELSE FALSE

get_josa(text, jtype) ==
    IF has_jongsung(text)
    THEN (IF jtype = Subject THEN I ELSE Eul)
    ELSE (IF jtype = Subject THEN Ga ELSE Reul)

\* is_korean looking at the first character only.
is_korean_FirstOnly(text) == text # <<>> /\ InHangul(text[1])

is_korean(text) == \E i \in 1..Len(text) : InHangul(text[i])

generate_ending_credit(t, a, n) ==
    IF is_korean(t) \/ is_korean(a) \/ is_korean(n)
    THEN KoHead \o t \o KoAfterTitle \o a \o get_josa(a, Subject)
           \o KoAfterAuthor \o n \o get_josa(n, Subject) \o KoAfterNarrator
    ELSE EnHead \o t \o EnAfterTitle \o a \o EnAfterAuthor \o n
           \o EnAfterNarrator

----------------------------------------------------------------------------
(* Temporary files *)

TmpNames == <<"tmp1", "tmp2", "tmp3", "tmp4">>

\* tempfile.NamedTemporaryFile(delete=False): a name not used before.
NamedTemporaryFile(used) == TmpNames[Cardinality(used) + 1]

WriteFile(f, name, content) ==
    [n \in DOMAIN f \cup {name} |-> IF n = name THEN content ELSE f[n]]

\* os.unlink
Unlink(f, name) == [n \in DOMAIN f \ {name} |-> f[n]]

NoFiles == [n \in {} |-> NoData]

----------------------------------------------------------------------------
(* download_outro *)

\* Any response is taken as a success.
StatusOk_Any(status_code) == TRUE

StatusOk(status_code) == status_code = 200

download_outro ==
    \/ \* requests.get raises
       /\ fetch' = [raised |-> TRUE, status |-> 0]
       /\ errors' = Append(errors, "download_exception")
       /\ outro_path' = None
       /\ UNCHANGED <<files, created>>
    \/ \E status_code \in StatusCodes :
       /\ fetch' = [raised |-> FALSE, status |-> status_code]
       /\ IF StatusOk(status_code)
          THEN \E content \in OutroContents :
               LET name == NamedTemporaryFile(created) IN
               /\ created' = created \cup {name}
               /\ files' = WriteFile(files, name, content)
               /\ outro_path' = name
               /\ UNCHANGED errors
          ELSE /\ errors' = Append(errors, "download_status")
               /\ outro_path' = None
               /\ UNCHANGED <<files, created>>

----------------------------------------------------------------------------
(* text_to_speech *)

\* Keyword arguments of client.text_to_speech.convert; spd is not among them.
ConvertRequest(text, spd) ==
    [voice_id |-> VoiceId, text |-> text, model_id |-> ModelId,
     output_format |-> OutputFormat]

text_to_speech(text, spd) ==
    /\ ttsRequests' = Append(ttsRequests, ConvertRequest(text, spd))
    /\ \/ \* the TTS call errors (HTTP error status or transport error)
          /\ ttsOutcome' = "call_error"
          /\ errors' = Append(errors, "tts_error")
          /\ tts_path' = None
          /\ UNCHANGED <<files, created>>
       \/ \E audio_bytes \in SpeechContents :
          LET name == NamedTemporaryFile(created) IN
          /\ created' = created \cup {name}
          /\ files' = WriteFile(files, name, audio_bytes)
          /\ ttsOutcome' = "ok"
          /\ tts_path' = name
          /\ UNCHANGED errors

----------------------------------------------------------------------------
(* process_audio_files *)

\* AudioSegment.from_mp3 / from_wav succeed on an existing file of that format.
CanDecode(path, format) ==
    /\ path \in DOMAIN files
    /\ files[path].format = format

silence == Clip("silence", SilenceMs)

\* The outro placed before the speech.
Combine_OutroFirst(tts_audio_, outro_audio_) ==
    outro_audio_ \o silence \o tts_audio_

\* combined = tts_audio + silence + outro_audio
Combine(tts_audio_, outro_audio_) == tts_audio_ \o silence \o outro_audio_

process_audio_files(tts, outro) ==
    /\ processCalls' = processCalls + 1
    /\ tts_audio' = IF CanDecode(tts, "mp3") THEN files[tts].frames
                     ELSE tts_audio
    /\ IF CanDecode(tts, "mp3") /\ CanDecode(outro, "wav")
       THEN LET output_path == NamedTemporaryFile(created)
            IN  /\ outro_audio' = files[outro].frames
                /\ combined' = Combine(tts_audio', outro_audio')
                /\ created' = created \cup {output_path}
                /\ \E exported \in BOOLEAN :
                   IF exported
                   THEN /\ files' = WriteFile(files, output_path,
                               [format |-> "mp3", frames |-> combined'])
                        /\ final_path' = output_path
                        /\ UNCHANGED errors
                   ELSE \* combined.export raises; the output file stays
                        /\ files' = WriteFile(files, output_path, NoData)
                        /\ final_path' = None
                        /\ errors' = Append(errors, "audio_error")
       ELSE /\ final_path' = None
            /\ errors' = Append(errors, "audio_error")
            /\ UNCHANGED <<files, created, outro_audio, combined>>

----------------------------------------------------------------------------
(* main *)

HasOutro(path) == path # None

\* The narrator is not tested.
FormAccepted_NoNarrator(sub, t, a, n) == sub /\ t # <<>> /\ a # <<>>

FormAccepted(sub, t, a, n) == sub /\ t # <<>> /\ a # <<>> /\ n # <<>>

\* The assembler runs whatever text_to_speech returned.
HasTts_Always(path) == TRUE

HasTts(path) == path # None

HasFinal(path) == path # None

\* The speech file is delivered instead of the assembled one.
DeliveredPath_Speech(tts, final) == tts

\* open(final_path, 'rb')
DeliveredPath(tts, final) == final

grammarVars == <<word, josa_type, josa>>
formVars == <<title, author, narrator, speed, submitted>>
outroVars == <<fetch, outro_path>>
ttsVars == <<ttsOutcome, ttsRequests, tts_path>>
processVars == <<processCalls, tts_audio, outro_audio, combined, final_path>>
sinkVars == <<sink, download>>

MainDownloadOutro ==
    /\ pc = "start"
    /\ download_outro
    /\ pc' = "outro_check"
    /\ UNCHANGED <<formVars, credit_text, ttsVars, processVars, sinkVars,
                   grammarVars>>

MainOutroMissing ==
    /\ pc = "outro_check"
    /\ ~HasOutro(outro_path)
    /\ errors' = Append(errors, "no_outro")
    /\ pc' = "stopped"                       \* st.stop()
    /\ UNCHANGED <<files, created, outroVars, formVars, credit_text, ttsVars,
                   processVars, sinkVars, grammarVars>>

MainForm ==
    /\ pc = "outro_check"
    /\ HasOutro(outro_path)
    /\ \E t \in FormNames, a \in FormNames, n \in FormNames,
          s \in SliderValues, sub \in BOOLEAN :
          /\ title' = t
          /\ author' = a
          /\ narrator' = n
          /\ speed' = s
          /\ submitted' = sub
    /\ pc' = "form_check"
    /\ UNCHANGED <<files, created, outroVars, credit_text, ttsVars,
                   processVars, sinkVars, errors, grammarVars>>

MainNotAccepted ==
    /\ pc = "form_check"
    /\ ~FormAccepted(submitted, title, author, narrator)
    /\ pc' = "cleanup"
    /\ UNCHANGED <<files, created, outroVars, formVars, credit_text, ttsVars,
                   processVars, sinkVars, errors, grammarVars>>

MainGenerateCredit ==
    /\ pc = "form_check"
    /\ FormAccepted(submitted, title, author, narrator)
    /\ credit_text' = generate_ending_credit(title, author, narrator)
    /\ pc' = "tts"
    /\ UNCHANGED <<files, created, outroVars, formVars, ttsVars, processVars,
                   sinkVars, errors, grammarVars>>

MainTextToSpeech ==
    /\ pc = "tts"
    /\ text_to_speech(credit_text, speed)
    /\ pc' = IF HasTts(tts_path') THEN "process" ELSE "cleanup"
    /\ UNCHANGED <<outroVars, formVars, credit_text, processVars, sinkVars,
                   grammarVars>>

MainProcessAudioFiles ==
    /\ pc = "process"
    /\ process_audio_files(tts_path, outro_path)
    /\ pc' = IF HasFinal(final_path') THEN "deliver" ELSE "cleanup"
    /\ UNCHANGED <<outroVars, formVars, credit_text, ttsVars, sinkVars,
                   grammarVars>>

MainDeliver ==
    /\ pc = "deliver"
    /\ LET path == DeliveredPath(tts_path, final_path) IN
       \/ \* open/read or st.audio raises
          /\ errors' = Append(errors, "audio_error")
          /\ UNCHANGED <<files, sinkVars>>
       \/ \* st.download_button raises
          /\ path \in DOMAIN files
          /\ sink' = files[path]
          /\ errors' = Append(errors, "audio_error")
          /\ UNCHANGED <<files, download>>
       \/ /\ path \in DOMAIN files
          /\ sink' = files[path]
          /\ download' = files[path]
          /\ files' = Unlink(Unlink(files, tts_path), final_path)
          /\ UNCHANGED errors
    /\ pc' = "cleanup"
    /\ UNCHANGED <<created, outroVars, formVars, credit_text, ttsVars,
                   processVars, grammarVars>>

MainCleanup ==
    /\ pc = "cleanup"
    /\ files' = IF outro_path # None /\ outro_path \in DOMAIN files
                THEN Unlink(files, outro_path)
                ELSE files
    /\ pc' = "done"
    /\ UNCHANGED <<created, outroVars, formVars, credit_text, ttsVars,
                   processVars, sinkVars, errors, grammarVars>>

----------------------------------------------------------------------------
(* Direct calls of the functions *)

DirectTexts ==
    {generate_ending_credit(<<65>>, <<65>>, <<65>>),
     generate_ending_credit(<<44033>>, <<65>>, <<44032>>)}

CallGetJosa ==
    /\ pc = "idle"
    /\ \E text \in Words, jtype \in JosaTypes :
          /\ word' = text
          /\ josa_type' = jtype
          /\ josa' = get_josa(text, jtype)
    /\ pc' = "get_josa_returned"
    /\ UNCHANGED <<files, created, outroVars, formVars, credit_text, ttsVars,
                   processVars, sinkVars, errors>>

CallGenerateEndingCredit ==
    /\ pc = "idle"
    /\ \E t \in Names, a \in Names, n \in Names :
          /\ title' = t
          /\ author' = a
          /\ narrator' = n
          /\ credit_text' = generate_ending_credit(t, a, n)
    /\ pc' = "credit_returned"
    /\ UNCHANGED <<files, created, outroVars, speed, submitted, ttsVars,
                   processVars, sinkVars, errors, grammarVars>>

CallTextToSpeech ==
    /\ pc = "idle"
    /\ \E text \in DirectTexts, spd \in DirectSpeeds :
          /\ credit_text' = text
          /\ speed' = spd
          /\ text_to_speech(text, spd)
    /\ pc' = "tts_returned"
    /\ UNCHANGED <<outroVars, title, author, narrator, submitted,
                   processVars, sinkVars, grammarVars>>

----------------------------------------------------------------------------
(* Specifications *)

InitVars ==
    /\ files = NoFiles
    /\ created = {}
    /\ fetch = [raised |-> FALSE, status |-> 0]
    /\ outro_path = None
    /\ title = <<>>
    /\ author = <<>>
    /\ narrator = <<>>
    /\ speed = DefaultSpeed
    /\ submitted = FALSE
    /\ credit_text = <<>>
    /\ ttsOutcome = "none"
    /\ ttsRequests = <<>>
    /\ tts_path = None
    /\ processCalls = 0
    /\ tts_audio = <<>>
    /\ outro_audio = <<>>
    /\ combined = <<>>
    /\ final_path = None
    /\ sink = NoData
    /\ download = NoData
    /\ errors = <<>>
    /\ word = <<>>
    /\ josa_type = Subject
    /\ josa = <<>>

\* One run of main().
Init == pc = "start" /\ InitVars

Next ==
    \/ MainDownloadOutro
    \/ MainOutroMissing
    \/ MainForm
    \/ MainNotAccepted
    \/ MainGenerateCredit
    \/ MainTextToSpeech
    \/ MainProcessAudioFiles
    \/ MainDeliver
    \/ MainCleanup

Spec == Init /\ [][Next]_vars

\* One direct call of get_josa, generate_ending_credit or text_to_speech.
InitFn == pc = "idle" /\ InitVars

NextFn ==
    \/ CallGetJosa
    \/ CallGenerateEndingCredit
    \/ CallTextToSpeech

SpecFn == InitFn /\ [][NextFn]_vars

----------------------------------------------------------------------------
(* Properties *)

Finished == pc \in {"done", "stopped"}

Count(frames, tag) == Cardinality({i \in 1..Len(frames) : frames[i] = tag})

\* A clip made of speech frames, then SilenceMs silence frames, then outro
\* frames, with at least one frame of speech and one of outro.
IsAssembled(frames) ==
    /\ Count(frames, "speech") > 0
    /\ Count(frames, "outro") > 0
    /\ frames = Clip("speech", Count(frames, "speech"))
                  \o Clip("silence", SilenceMs)
                  \o Clip("outro", Count(frames, "outro"))

\* C1: when a run of main() has ended, on whatever path, no temporary file
\* created during the run (outro, speech, output) is left on disk.
C1_AllTempFilesDeleted ==
    Finished => created \cap DOMAIN files = {}

\* C2: every request issued to the TTS backend carries a speed, and it is
\* the speed of the form, for every speed of the slider range 0.5..2.0.
C2_SpeedPassedThrough ==
    (speed >= MinSpeed /\ speed <= MaxSpeed) =>
        \A i \in 1..Len(ttsRequests) :
            /\ "speed" \in DOMAIN ttsRequests[i]
            /\ ttsRequests[i].speed = speed

\* C3: when the TTS call errored, process_audio_files is never invoked in
\* the run, main goes straight to its end, and the run shows an error and
\* delivers nothing.
C3_NoAssemblyAfterTtsFailure ==
    ttsOutcome = "call_error" =>
        /\ processCalls = 0
        /\ tts_path = None
        /\ final_path = None
        /\ pc \in {"cleanup", "done"}
        /\ \E i \in 1..Len(errors) : errors[i] = "tts_error"
        /\ sink = NoData
        /\ download = NoData

C3_Witness ==
    /\ pc = "done"
    /\ ttsOutcome = "call_error"
    /\ Len(ttsRequests) = 1

\* C4: st.audio and st.download_button receive data only when synthesis and
\* assembly both succeeded, and the data is the assembled file: speech, then
\* 500 ms of silence, then outro.  Nothing else is ever delivered.
C4_SinkOnlyAssembled ==
    /\ (sink # NoData \/ download # NoData) =>
          /\ ttsOutcome = "ok"
          /\ tts_path # None
          /\ processCalls = 1
          /\ final_path # None
          /\ sink = [format |-> "mp3", frames |-> combined]
          /\ IsAssembled(sink.frames)
          /\ Count(sink.frames, "speech") = Len(tts_audio)
          /\ Count(sink.frames, "outro") = Len(outro_audio)
    /\ download # NoData => download = sink
    /\ (Finished /\ (ttsOutcome # "ok" \/ final_path = None)) =>
          sink = NoData /\ download = NoData

C4_Witness ==
    /\ pc = "done"
    /\ sink # NoData
    /\ download = sink
    /\ Len(sink.frames) = SilenceMs + 2

\* C5: a form whose title, author or narrator is the empty string builds no
\* credit sentence, issues no TTS call, runs no assembly and delivers
\* nothing.
C5_EmptyFieldRejected ==
    (pc \in {"form_check", "tts", "process", "deliver", "cleanup", "done"}
       /\ (title = <<>> \/ author = <<>> \/ narrator = <<>>)) =>
        /\ credit_text = <<>>
        /\ ttsRequests = <<>>
        /\ processCalls = 0
        /\ sink = NoData
        /\ download = NoData
        /\ pc \in {"form_check", "cleanup", "done"}

C5_Witness ==
    /\ pc = "done"
    /\ submitted
    /\ title # <<>>
    /\ author # <<>>
    /\ narrator = <<>>

\* C6: when the outro fetch raised or answered with a status other than 200,
\* download_outro returns None and has created no temporary file, and the
\* run stops: no form input is read, no TTS call, no assembly.
C6_OutroFailureStopsRun ==
    (pc # "start" /\ (fetch.raised \/ fetch.status # 200)) =>
        /\ outro_path = None
        /\ created = {}
        /\ files = NoFiles
        /\ pc \in {"outro_check", "stopped"}
        /\ ~submitted
        /\ title = <<>> /\ author = <<>> /\ narrator = <<>>
        /\ credit_text = <<>>
        /\ ttsRequests = <<>>
        /\ processCalls = 0

C6_Witness ==
    /\ pc = "stopped"
    /\ ~fetch.raised
    /\ fetch.status = 404

\* C7: get_josa returns the closed-form particle exactly when the word is
\* not empty and its last character is a Hangul syllable U+AC00..U+D7A3
\* whose offset from U+AC00 is not a multiple of 28; otherwise, the empty
\* word and a non-Hangul last character included, the open-form particle.
C7_JosaClosedIff ==
    pc = "get_josa_returned" =>
        LET closed == /\ Len(word) > 0
                      /\ word[Len(word)] >= 44032
                      /\ word[Len(word)] <= 55203
                      /\ (word[Len(word)] - 44032) % 28 # 0
        IN  /\ closed => josa = (IF josa_type = Subject THEN I ELSE Eul)
            /\ ~closed => josa = (IF josa_type = Subject THEN Ga ELSE Reul)

C7_Witness ==
    /\ pc = "get_josa_returned"
    /\ word = <<65, 55203>>
    /\ josa_type = Object
    /\ josa = Eul

\* C8: generate_ending_credit renders the Korean template, the subject
\* particle of get_josa right after author and after narrator, exactly when
\* one of the three fields has a character in U+AC00..U+D7A3; otherwise it
\* renders the English template, without particles.
C8_TemplateByHangul ==
    pc = "credit_returned" =>
        LET hangul(f) == \E i \in 1..Len(f) : f[i] >= 44032 /\ f[i] <= 55203
            korean == KoHead \o title \o KoAfterTitle
                        \o author \o get_josa(author, Subject) \o KoAfterAuthor
                        \o narrator \o get_josa(narrator, Subject)
                        \o KoAfterNarrator
            english == EnHead \o title \o EnAfterTitle \o author
                        \o EnAfterAuthor \o narrator \o EnAfterNarrator
        IN  IF hangul(title) \/ hangul(author) \/ hangul(narrator)
            THEN credit_text = korean
            ELSE credit_text = english

C8_Witness ==
    /\ pc = "credit_returned"
    /\ title = <<72, 105>>
    /\ author = <<65>>
    /\ narrator = <<72, 105, 50504>>
    /\ SubSeq(credit_text, 1, Len(KoHead)) = KoHead

\* C9: whenever process_audio_files has decoded both clips, combined is the
\* speech frames, then 500 ms of silence, then the outro frames, and its
\* duration is speech duration + 500 ms + outro duration.
C9_FixedOrder ==
    /\ (processCalls > 0 /\ outro_audio # <<>>) => combined # <<>>
    /\ combined # <<>> =>
        LET s == Len(tts_audio)
            o == Len(outro_audio)
        IN  /\ s > 0 /\ o > 0
            /\ Len(combined) = s + 500 + o
            /\ SubSeq(combined, 1, s) = tts_audio
            /\ \A i \in (s + 1)..(s + 500) : combined[i] = "silence"
            /\ SubSeq(combined, s + 501, s + 500 + o) = outro_audio
            /\ \A i \in 1..s : tts_audio[i] = "speech"
            /\ \A i \in 1..o : outro_audio[i] = "outro"

C9_Witness ==
    /\ processCalls = 1
    /\ Len(tts_audio) = 1
    /\ Len(outro_audio) = 2
    /\ Len(combined) = 503

\* C10: text_to_speech called with a speed outside 0.5..2.0 issues no
\* request to the TTS backend.
C10_OutOfRangeSpeedRejected ==
    (pc = "tts_returned" /\ (speed < MinSpeed \/ speed > MaxSpeed)) =>
        ttsRequests = <<>>

====
